---- MODULE Spec2Model ----
(***************************************************************************)
(* Model of maze_solver_interactive.py: Maze.random, Maze.neighbors,       *)
(* reconstruct_path, bfs, dfs_backtracking and the generate+search loop of *)
(* main().  Cells are pairs <<row, col>>, 0-indexed as in the source.      *)
(*                                                                         *)
(* Floats: density and the values of rng.random() are fixed-point numbers  *)
(* in units of 1/ONE, so rng.random() ranges over 0..ONE-1 (the interval   *)
(* [0.0, 1.0)) and `density` over -1..ONE (below 0.0 up to 1.0 itself).    *)
(***************************************************************************)
EXTENDS Integers, Sequences, FiniteSets, TLC

\* Bounds of the model: grids have at most MaxDim rows and columns and at
\* most MaxCells cells; runs that may retry (ensure) use grids of at most
\* RetryCells cells, name the top-left cell or the cell above it as start,
\* and the bottom-right cell, the top-left cell or the cell below the
\* bottom-left one as end.
MaxDim == 3
MaxCells == 7
RetryCells == 5

\* 1.0 in fixed-point units (line 44: density < 1.0; line 47: rng.random()).
ONE == 2

\* main(): max_tries = 200
max_tries == 200

VARIABLES
    rows, cols, start, end, density, algo, ensure,  \* the inputs of main()
    attempt,      \* main(): attempt
    rng,          \* number of values drawn from rng so far
    draws,        \* the values drawn by the latest Maze.random call
    maze,         \* main(): maze (a Maze: grid, start, end)
    path,         \* main(): path
    visited,      \* the visited set of the running search / main(): visited
    parents,      \* bfs, dfs_backtracking: parents
    q,            \* bfs: q
    stack,        \* dfs_backtracking: the running calls of dfs, [u, i] per
                  \* call: i directions of neighbors(u) already taken
    found,        \* dfs_backtracking: found
    error,        \* the message of the ValueError caught at line 193
    overlay,      \* main(): overlay
    shown,        \* the text of the maze printed at line 216
    exported,     \* the text written to the export file at line 227
    pc            \* position in main()

params == <<rows, cols, start, end, density, algo, ensure>>
search == <<visited, parents, q, stack, found>>
out == <<overlay, shown, exported>>
vars == <<rows, cols, start, end, density, algo, ensure, attempt, rng, draws,
          maze, path, visited, parents, q, stack, found, error, overlay,
          shown, exported, pc>>

\* Python's None, and the value of a local that is not bound yet.
None == << <<-1, -1>> >>
Unbound == << <<-2, -2>> >>
NoMaze == [grid |-> <<>>, start |-> <<-2, -2>>, end |-> <<-2, -2>>]
\* None and the unbound local where a set of cells is expected (the overlay
\* of line 215), and the text that has not been printed or written.
NoOverlay == {<<-1, -1>>}
UnboundCells == {<<-2, -2>>}
NoText == <<>>

RECURSIVE Reverse(_)
Reverse(s) == IF s = <<>> THEN <<>> ELSE Append(Reverse(Tail(s)), Head(s))

(***************************************************************************)
(* Maze.random                                                             *)
(***************************************************************************)
\* Mutation of ValidationError: lines 42-43 (start == end) are missing.
ValidationNoDistinct(rws, cls, st, en, dens) ==
    IF rws <= 1 \/ cls <= 1 THEN "rows and cols must be >= 2"
    ELSE IF ~(0 <= st[1] /\ st[1] < rws /\ 0 <= st[2] /\ st[2] < cls)
         THEN "start out of bounds"
    ELSE IF ~(0 <= en[1] /\ en[1] < rws /\ 0 <= en[2] /\ en[2] < cls)
         THEN "end out of bounds"
    ELSE IF ~(0 <= dens /\ dens < ONE) THEN "density must be in [0.0, 1.0)"
    ELSE ""

\* Lines 36-45: the ValueError raised, or "" when the parameters pass.
ValidationError(rws, cls, st, en, dens) ==
    IF rws <= 1 \/ cls <= 1 THEN "rows and cols must be >= 2"
    ELSE IF ~(0 <= st[1] /\ st[1] < rws /\ 0 <= st[2] /\ st[2] < cls)
         THEN "start out of bounds"
    ELSE IF ~(0 <= en[1] /\ en[1] < rws /\ 0 <= en[2] /\ en[2] < cls)
         THEN "end out of bounds"
    ELSE IF st = en THEN "start and end cannot be the same cell"
    ELSE IF ~(0 <= dens /\ dens < ONE) THEN "density must be in [0.0, 1.0)"
    ELSE ""

\* Mutation of RandomGrid: the loops of line 47 are nested the other way
\* round, columns outermost.
RandomGridColumnMajor(rws, cls, dens, ds) ==
    [r \in 0..(rws - 1) |->
        [c \in 0..(cls - 1) |->
            IF ds[c * rws + r + 1] < dens THEN "#" ELSE "."]]

\* Line 47: one draw per cell, rows outermost; ds[k] is the k-th value drawn.
RandomGrid(rws, cls, dens, ds) ==
    [r \in 0..(rws - 1) |->
        [c \in 0..(cls - 1) |->
            IF ds[r * cls + c + 1] < dens THEN "#" ELSE "."]]

\* Mutation of OpenEndpoints: line 51 (the end cell) is missing.
OpenStartOnly(grid, st, en) ==
    [grid EXCEPT ![st[1]][st[2]] = "."]

\* Lines 48-51: grid[sr][sc] = '.', grid[er][ec] = '.'
OpenEndpoints(grid, st, en) ==
    [grid EXCEPT ![st[1]][st[2]] = ".", ![en[1]][en[2]] = "."]

\* Lines 47-52, for parameters that passed the validation.
MazeRandom(rws, cls, st, en, dens, ds) ==
    [grid |-> OpenEndpoints(RandomGrid(rws, cls, dens, ds), st, en),
     start |-> st, end |-> en]

(***************************************************************************)
(* Maze.neighbors                                                          *)
(***************************************************************************)
\* Mutation of Dirs: the direction (0,-1) is missing.
DirsNoLeft == << <<1, 0>>, <<-1, 0>>, <<0, 1>> >>

\* Mutation of Dirs: up comes before down.
DirsUpFirst == << <<-1, 0>>, <<1, 0>>, <<0, 1>>, <<0, -1>> >>

\* Line 56: the order of the directions.
Dirs == << <<1, 0>>, <<-1, 0>>, <<0, 1>>, <<0, -1>> >>

\* len(self.grid), len(self.grid[0])
NumRows(grid) == Cardinality(DOMAIN grid)
NumCols(grid) == Cardinality(DOMAIN grid[0])

\* Line 57: nr, nc = r+dr, c+dc
Shift(rc, d) == <<rc[1] + d[1], rc[2] + d[2]>>

\* Mutation of Yields: the wall test of line 59 is missing.
YieldsWalls(m, n) ==
    /\ 0 <= n[1] /\ n[1] < NumRows(m.grid)
    /\ 0 <= n[2] /\ n[2] < NumCols(m.grid)

\* Lines 58-59: is the cell n = (nr, nc) yielded?
Yields(m, n) ==
    /\ 0 <= n[1] /\ n[1] < NumRows(m.grid)
    /\ 0 <= n[2] /\ n[2] < NumCols(m.grid)
    /\ m.grid[n[1]][n[2]] # "#"

\* Lines 54-60: the cells yielded, in the order they are yielded.
neighbors(m, rc) ==
    SelectSeq([i \in 1..Len(Dirs) |-> Shift(rc, Dirs[i])],
              LAMBDA n : Yields(m, n))

(***************************************************************************)
(* reconstruct_path                                                        *)
(***************************************************************************)
\* parents[k] = v on a dict
Put(par, k, v) ==
    [x \in (DOMAIN par) \cup {k} |-> IF x = k THEN v ELSE par[x]]

\* Outcomes of reconstruct_path other than a returned list: parents[cur]
\* raises KeyError, or the while loop never ends.
KeyError == << <<-3, -3>> >>
Diverges == << <<-4, -4>> >>

\* Lines 81-83, `left` more iterations before some key has been followed
\* twice (from then on the loop repeats itself forever).
RECURSIVE Walk(_, _, _, _, _)
Walk(par, cur, st, pth, left) ==
    IF cur = st THEN pth
    ELSE IF cur \notin DOMAIN par THEN KeyError
    ELSE IF left = 0 THEN Diverges
    ELSE Walk(par, par[cur], st, Append(pth, par[cur]), left - 1)

\* Mutation of reconstruct_path: line 84 (path.reverse()) is missing.
ReconstructUnreversed(par, en, st) ==
    Walk(par, en, st, <<en>>, Cardinality(DOMAIN par))

\* Lines 78-85
reconstruct_path(par, en, st) ==
    LET pth == Walk(par, en, st, <<en>>, Cardinality(DOMAIN par))
    IN  IF pth \in {KeyError, Diverges} THEN pth ELSE Reverse(pth)

(***************************************************************************)
(* main(): the generate+search loop                                        *)
(***************************************************************************)
\* The cells a caller may name as start or end of a rws x cls grid: every
\* cell of the grid and one cell beyond each side.
Coords(rws, cls) ==
    ((0..(rws - 1)) \X (0..(cls - 1)))
        \cup {<<-1, 0>>, <<rws, 0>>, <<0, -1>>, <<0, cls>>}

RetryStarts == {<<0, 0>>, <<-1, 0>>}
RetryEnds(rws, cls) == {<<rws - 1, cls - 1>>, <<0, 0>>, <<rws, 0>>}

Init ==
    /\ rows \in 1..MaxDim
    /\ cols \in 1..MaxDim
    /\ rows * cols <= MaxCells
    /\ start \in Coords(rows, cols)
    /\ end \in Coords(rows, cols)
    /\ density \in -1..ONE
    /\ algo \in {"bfs", "dfs"}
    /\ ensure \in BOOLEAN
    /\ ensure => /\ rows * cols <= RetryCells
                 /\ start \in RetryStarts
                 /\ end \in RetryEnds(rows, cols)
    /\ attempt = 0
    /\ rng = 0
    /\ draws = <<>>
    /\ maze = NoMaze
    /\ path = Unbound
    /\ visited = {}
    /\ parents = <<>>
    /\ q = <<>>
    /\ stack = <<>>
    /\ found = FALSE
    /\ error = ""
    /\ overlay = UnboundCells
    /\ shown = NoText
    /\ exported = NoText
    /\ pc = "loop"

\* Lines 190-195: attempt += 1; maze = Maze.random(...), or the ValueError
\* is caught, reported, and main returns.
Generate ==
    /\ pc = "loop"
    /\ attempt' = attempt + 1
    /\ LET e == ValidationError(rows, cols, start, end, density)
       IN  IF e # ""
           THEN /\ error' = e
                /\ pc' = "error"
                /\ UNCHANGED <<rng, draws, maze>>
           ELSE /\ \E ds \in [1..(rows * cols) -> 0..(ONE - 1)] :
                     /\ draws' = ds
                     /\ maze' = MazeRandom(rows, cols, start, end, density, ds)
                /\ rng' = rng + rows * cols
                /\ pc' = "search"
                /\ UNCHANGED error
    /\ UNCHANGED <<params, out, path, search>>

(***************************************************************************)
(* bfs                                                                     *)
(* The locals of a running bfs are a record s = [q, parents, visited,      *)
(* ret]; ret is Unbound until bfs returns, then the path it returns.       *)
(***************************************************************************)
\* Lines 89-91
BfsStart(m) ==
    [q |-> <<m.start>>, parents |-> <<>>, visited |-> {m.start},
     ret |-> Unbound]

\* Mutation of BfsExpand: q.appendleft(nb) for q.append(nb), which makes
\* the frontier a stack.
RECURSIVE BfsExpandLifo(_, _, _)
BfsExpandLifo(s, cur, nbs) ==
    IF nbs = <<>> THEN s
    ELSE LET nb == Head(nbs)
         IN  IF nb \notin s.visited
             THEN BfsExpandLifo([s EXCEPT !.visited = s.visited \cup {nb},
                                          !.parents = Put(s.parents, nb, cur),
                                          !.q = <<nb>> \o s.q],
                                cur, Tail(nbs))
             ELSE BfsExpandLifo(s, cur, Tail(nbs))

\* Mutation of BfsExpand: parents[nb] = cur comes before the test of line
\* 97, so it is also done for a neighbour that is visited already.
RECURSIVE BfsExpandRecordsAll(_, _, _)
BfsExpandRecordsAll(s, cur, nbs) ==
    IF nbs = <<>> THEN s
    ELSE LET nb == Head(nbs)
             rec == [s EXCEPT !.parents = Put(s.parents, nb, cur)]
         IN  IF nb \notin s.visited
             THEN BfsExpandRecordsAll(
                      [rec EXCEPT !.visited = s.visited \cup {nb},
                                  !.q = Append(s.q, nb)],
                      cur, Tail(nbs))
             ELSE BfsExpandRecordsAll(rec, cur, Tail(nbs))

\* Lines 96-100: the for loop over the neighbours nbs of cur.
RECURSIVE BfsExpand(_, _, _)
BfsExpand(s, cur, nbs) ==
    IF nbs = <<>> THEN s
    ELSE LET nb == Head(nbs)
         IN  IF nb \notin s.visited
             THEN BfsExpand([s EXCEPT !.visited = s.visited \cup {nb},
                                      !.parents = Put(s.parents, nb, cur),
                                      !.q = Append(s.q, nb)],
                            cur, Tail(nbs))
             ELSE BfsExpand(s, cur, Tail(nbs))

\* Lines 93-100: one iteration of `while q` (q is not empty); at maze.end
\* it returns the reconstructed path (line 95).
BfsBody(m, s) ==
    LET cur == Head(s.q)
        popped == [s EXCEPT !.q = Tail(s.q)]
    IN  IF cur = m.end
        THEN [popped EXCEPT
                 !.ret = reconstruct_path(s.parents, m.end, m.start)]
        ELSE BfsExpand(popped, cur, neighbors(m, cur))

\* Lines 92-101: the while loop, to the return.
RECURSIVE BfsWhile(_, _)
BfsWhile(m, s) ==
    IF s.ret # Unbound THEN s
    ELSE IF s.q = <<>> THEN [s EXCEPT !.ret = None]
    ELSE BfsWhile(m, BfsBody(m, s))

\* Lines 87-101: the pair bfs(maze) returns.
bfs(m) ==
    LET s == BfsWhile(m, BfsStart(m)) IN <<s.ret, s.visited>>

BfsLocals == [q |-> q, parents |-> parents, visited |-> visited,
              ret |-> Unbound]

\* Lines 198-199 and 89-91: bfs(maze) is called and sets up its locals.
\* The values drawn for the maze are not kept beyond this point.
CallBfs ==
    /\ pc = "search"
    /\ algo = "bfs"
    /\ LET s == BfsStart(maze)
       IN  /\ q' = s.q
           /\ parents' = s.parents
           /\ visited' = s.visited
    /\ draws' = <<>>
    /\ pc' = "bfs"
    /\ UNCHANGED <<params, out, attempt, rng, maze, path, stack, found, error>>

\* Lines 92-100: one iteration of `while q`; line 199 when it returns.
BfsIterate ==
    /\ pc = "bfs"
    /\ q # <<>>
    /\ LET s == BfsBody(maze, BfsLocals)
       IN  /\ q' = s.q
           /\ parents' = s.parents
           /\ visited' = s.visited
           /\ IF s.ret # Unbound
              THEN path' = s.ret /\ pc' = "decide"
              ELSE UNCHANGED <<path, pc>>
    /\ UNCHANGED <<params, out, attempt, rng, draws, maze, stack, found, error>>

\* Lines 92 and 101: q is empty, return None, visited; line 199.
BfsExhausted ==
    /\ pc = "bfs"
    /\ q = <<>>
    /\ path' = None
    /\ pc' = "decide"
    /\ UNCHANGED <<params, out, attempt, rng, draws, maze, search, error>>

(***************************************************************************)
(* dfs_backtracking                                                        *)
(* The locals of a running dfs_backtracking are a record s = [visited,     *)
(* parents, found, stack]; stack holds the running calls of dfs, innermost *)
(* last, each [u, i]: dfs(u) has taken i directions of neighbors(u).       *)
(***************************************************************************)
\* Mutation of DfsEnter: `if u == maze.end` comes before visited.add(u).
DfsEnterEndFirst(m, s, u) ==
    IF s.found THEN s
    ELSE IF u = m.end
         THEN [s EXCEPT !.found = TRUE]
    ELSE [s EXCEPT !.visited = s.visited \cup {u},
                   !.stack = Append(s.stack, [u |-> u, i |-> 0])]

\* Mutation of DfsEnter: lines 109-110 (`if found: return`) are missing.
DfsEnterIgnoresFound(m, s, u) ==
    IF u = m.end
    THEN [s EXCEPT !.visited = s.visited \cup {u}, !.found = TRUE]
    ELSE [s EXCEPT !.visited = s.visited \cup {u},
                   !.stack = Append(s.stack, [u |-> u, i |-> 0])]

\* Lines 109-114: dfs(u) is entered; it returns at once (found earlier, or
\* u is maze.end) or goes on to its for loop.
DfsEnter(m, s, u) ==
    IF s.found THEN s
    ELSE IF u = m.end
         THEN [s EXCEPT !.visited = s.visited \cup {u}, !.found = TRUE]
    ELSE [s EXCEPT !.visited = s.visited \cup {u},
                   !.stack = Append(s.stack, [u |-> u, i |-> 0])]

\* Lines 104-106 and 119
DfsStart(m) ==
    DfsEnter(m, [visited |-> {}, parents |-> <<>>, found |-> FALSE,
                 stack |-> <<>>], m.start)

\* Lines 115-118: the innermost running dfs(u) takes the next direction of
\* neighbors(u); a yielded cell v that is not visited gets parents[v] = u
\* and dfs(v) is called.
DfsLoopBody(m, s) ==
    LET n == Len(s.stack)
        top == s.stack[n]
        v == Shift(top.u, Dirs[top.i + 1])
        advanced == [s EXCEPT !.stack[n].i = top.i + 1]
    IN  IF Yields(m, v) /\ v \notin s.visited
        THEN DfsEnter(m, [advanced EXCEPT !.parents = Put(s.parents, v, top.u)],
                      v)
        ELSE advanced

\* Line 115 exhausted: the innermost running dfs(u) returns.
DfsLoopEnd(s) ==
    [s EXCEPT !.stack = SubSeq(s.stack, 1, Len(s.stack) - 1)]

\* Lines 107-119: all the steps of dfs(maze.start) to its return.
RECURSIVE DfsRun(_, _)
DfsRun(m, s) ==
    IF s.stack = <<>> THEN s
    ELSE IF s.stack[Len(s.stack)].i < Len(Dirs)
         THEN DfsRun(m, DfsLoopBody(m, s))
    ELSE DfsRun(m, DfsLoopEnd(s))

\* Lines 120-122
DfsResult(m, s) ==
    IF s.found THEN reconstruct_path(s.parents, m.end, m.start) ELSE None

\* Lines 103-122: the pair dfs_backtracking(maze) returns.
dfs_backtracking(m) ==
    LET s == DfsRun(m, DfsStart(m)) IN <<DfsResult(m, s), s.visited>>

DfsLocals == [visited |-> visited, parents |-> parents, found |-> found,
              stack |-> stack]

\* Lines 200-201, 104-106 and 119: dfs_backtracking(maze) is called, sets
\* up its locals and calls dfs(maze.start).
CallDfs ==
    /\ pc = "search"
    /\ algo = "dfs"
    /\ LET s == DfsStart(maze)
       IN  /\ visited' = s.visited
           /\ parents' = s.parents
           /\ found' = s.found
           /\ stack' = s.stack
    /\ draws' = <<>>
    /\ pc' = "dfs"
    /\ UNCHANGED <<params, out, attempt, rng, maze, path, q, error>>

\* Lines 115-118: one iteration of the for loop of the innermost dfs.
DfsNext ==
    /\ pc = "dfs"
    /\ stack # <<>>
    /\ stack[Len(stack)].i < Len(Dirs)
    /\ LET s == DfsLoopBody(maze, DfsLocals)
       IN  /\ visited' = s.visited
           /\ parents' = s.parents
           /\ found' = s.found
           /\ stack' = s.stack
    /\ UNCHANGED <<params, out, attempt, rng, draws, maze, path, q, error, pc>>

\* Line 115 exhausted: the innermost dfs returns to its caller.
DfsPop ==
    /\ pc = "dfs"
    /\ stack # <<>>
    /\ stack[Len(stack)].i = Len(Dirs)
    /\ stack' = DfsLoopEnd(DfsLocals).stack
    /\ UNCHANGED <<params, out, attempt, rng, draws, maze, path, visited, parents,
                   q, found, error, pc>>

\* Lines 120-122 and 201: dfs(maze.start) has returned.
DfsReturn ==
    /\ pc = "dfs"
    /\ stack = <<>>
    /\ path' = DfsResult(maze, DfsLocals)
    /\ pc' = "decide"
    /\ UNCHANGED <<params, out, attempt, rng, draws, maze, search, error>>

\* Mutations of Break: `attempt > max_tries`; `not ensure` missing;
\* `path is not None` missing.
BreakOffByOne(pth, ens, att) == pth # None \/ ~ens \/ att > max_tries
BreakIgnoresEnsure(pth, ens, att) == pth # None \/ att >= max_tries
BreakIgnoresPath(pth, ens, att) == ~ens \/ att >= max_tries

\* Line 204: the condition of the break.
Break(pth, ens, att) == pth # None \/ ~ens \/ att >= max_tries

\* Mutation of Decide: attempt is counted again when the loop is left.
DecideCountsBreak ==
    /\ pc = "decide"
    /\ IF path # None \/ ~ensure \/ attempt >= max_tries
       THEN /\ pc' = "done"
            /\ attempt' = attempt + 1
            /\ UNCHANGED search
       ELSE /\ pc' = "loop"
            /\ visited' = {}
            /\ parents' = <<>>
            /\ q' = <<>>
            /\ stack' = <<>>
            /\ found' = FALSE
            /\ UNCHANGED attempt
    /\ UNCHANGED <<params, out, rng, draws, maze, path, error>>

\* Lines 204-205: leave the loop, or go round again.  The locals of the
\* search that has returned are gone, and nothing reads main's visited
\* before the next search replaces it: going round again drops them.
Decide ==
    /\ pc = "decide"
    /\ IF Break(path, ensure, attempt)
       THEN /\ pc' = "done"
            /\ UNCHANGED search
       ELSE /\ pc' = "loop"
            /\ visited' = {}
            /\ parents' = <<>>
            /\ q' = <<>>
            /\ stack' = <<>>
            /\ found' = FALSE
    /\ UNCHANGED <<params, out, attempt, rng, draws, maze, path, error>>

(***************************************************************************)
(* Maze.draw_with_path, and the report and the export of main()            *)
(***************************************************************************)
\* Python's truth value of the arguments at lines 64 and 68: None and the
\* empty collection are false.
VisitedGiven(vis) == vis # NoOverlay /\ vis # {}
PathGiven(pth) == pth # None /\ pth # <<>>

\* Lines 64-67: the overlay of the visited cells on the copy g.
MarkVisited(m, vis) ==
    [r \in DOMAIN m.grid |-> [c \in DOMAIN m.grid[r] |->
        IF VisitedGiven(vis) /\ <<r, c>> \in vis /\ m.grid[r][c] = "."
        THEN "·" ELSE m.grid[r][c]]]

\* Lines 68-71: the marks of the path cells.
MarkPath(g, pth) ==
    [r \in DOMAIN g |-> [c \in DOMAIN g[r] |->
        IF /\ PathGiven(pth)
           /\ \E i \in 1..Len(pth) : pth[i] = <<r, c>>
           /\ g[r][c] \notin {"S", "E"}
        THEN "*" ELSE g[r][c]]]

\* Lines 72-75: S, then E, each unless the cell holds the path mark.
MarkEndpoints(g, st, en) ==
    LET gs == IF g[st[1]][st[2]] # "*"
              THEN [g EXCEPT ![st[1]][st[2]] = "S"] ELSE g
    IN  IF gs[en[1]][en[2]] # "*"
        THEN [gs EXCEPT ![en[1]][en[2]] = "E"] ELSE gs

\* Lines 63-75: g when draw_with_path reaches its return.
Drawn(m, pth, vis) ==
    MarkEndpoints(MarkPath(MarkVisited(m, vis), pth), m.start, m.end)

\* Lines 76 and 227: the rows joined: a text is its lines in order, a line
\* its characters in order.
Join(g) ==
    [i \in 1..Cardinality(DOMAIN g) |->
        [j \in 1..Cardinality(DOMAIN g[i - 1]) |-> g[i - 1][j - 1]]]

draw_with_path(m, pth, vis) == Join(Drawn(m, pth, vis))

\* Mutation of GridAfterDraw: g is self.grid itself, not a copy of its rows.
GridAfterDrawInPlace(m, pth, vis) == Drawn(m, pth, vis)

\* Line 63: g holds copies of the rows, so the writes of lines 64-75 leave
\* self.grid as it was.
GridAfterDraw(m, pth, vis) == m.grid

\* Lines 222-227: the text of the export.
ExportText(m) ==
    LET gs == [m.grid EXCEPT ![m.start[1]][m.start[2]] = "S"]
    IN  Join([gs EXCEPT ![m.end[1]][m.end[2]] = "E"])

\* Line 222: again copies of the rows.
GridAfterExport(m) == m.grid

\* Lines 207-217: the report.  show_visited is the answer read at line 181;
\* nothing reads it before line 215.
Report ==
    /\ pc = "done"
    /\ \E show_visited \in BOOLEAN :
          overlay' = IF show_visited THEN visited ELSE NoOverlay
    /\ shown' = draw_with_path(maze, path, overlay')
    /\ maze' = [maze EXCEPT !.grid = GridAfterDraw(maze, path, overlay')]
    /\ pc' = "shown"
    /\ UNCHANGED <<params, attempt, rng, draws, path, search, error,
                   exported>>

\* Lines 219-229: the export, skipped on an empty answer.
Export ==
    /\ pc = "shown"
    /\ \E exp \in {"", "maze.txt"} :
          IF exp # ""
          THEN /\ exported' = ExportText(maze)
               /\ maze' = [maze EXCEPT !.grid = GridAfterExport(maze)]
          ELSE UNCHANGED <<exported, maze>>
    /\ pc' = "exit"
    /\ UNCHANGED <<params, attempt, rng, draws, path, search, error, overlay,
                   shown>>

Next ==
    \/ Generate
    \/ CallBfs
    \/ BfsIterate
    \/ BfsExhausted
    \/ CallDfs
    \/ DfsNext
    \/ DfsPop
    \/ DfsReturn
    \/ Decide
    \/ Report
    \/ Export

Spec == Init /\ [][Next]_vars

\* The runs with ensure.  main() is one sequential program: it takes its
\* next step whenever it has one.
InitEnsure == Init /\ ensure = TRUE

FairRetrySpec == InitEnsure /\ [][Next]_vars /\ WF_vars(Next)

(***************************************************************************)
(* Notions the properties are stated in, defined on the grid alone.        *)
(***************************************************************************)
Cells(m) == (DOMAIN m.grid) \X (DOMAIN m.grid[0])

IsOpen(m, c) == c \in Cells(m) /\ m.grid[c[1]][c[2]] = "."

Abs(x) == IF x < 0 THEN -x ELSE x

\* a and b differ by exactly one unit in exactly one of row and column.
Adjacent(a, b) ==
    \/ a[1] = b[1] /\ Abs(a[2] - b[2]) = 1
    \/ a[2] = b[2] /\ Abs(a[1] - b[1]) = 1

\* The cells of `near` and the open cells adjacent to one of them.
OneStep(m, near) ==
    near \cup {c \in Cells(m) : IsOpen(m, c) /\ \E b \in near : Adjacent(b, c)}

\* The cells some walk of at most k more steps over open cells reaches
\* from a cell of `near`.
RECURSIVE Within(_, _, _)
Within(m, near, k) ==
    IF k = 0 THEN near
    ELSE LET next == OneStep(m, near)
         IN  IF next = near THEN near ELSE Within(m, next, k - 1)

\* The cells reachable from start over 4-adjacent open cells.
Reachable(m) == Within(m, {m.start}, Cardinality(Cells(m)))

\* The least k such that some walk of k steps over open cells leads from a
\* cell of `near` to end, plus n (end is reachable).
RECURSIVE StepsToEnd(_, _, _)
StepsToEnd(m, near, n) ==
    IF m.end \in near THEN n ELSE StepsToEnd(m, OneStep(m, near), n + 1)

\* The least number of steps of a walk from start to end over open cells.
MinEdges(m) == StepsToEnd(m, {m.start}, 0)

\* p is a list of cells (not None, not an unbound name, not a failure).
IsList(p) == p \notin {None, Unbound, KeyError, Diverges}

\* p is a simple path of m from start to end.
ValidPath(m, p) ==
    /\ IsList(p)
    /\ Len(p) >= 1
    /\ p[1] = m.start
    /\ p[Len(p)] = m.end
    /\ \A i \in 1..Len(p) : IsOpen(m, p[i])
    /\ \A i, j \in 1..Len(p) : i # j => p[i] # p[j]
    /\ \A i \in 1..(Len(p) - 1) : Adjacent(p[i], p[i + 1])

Returned == pc \in {"decide", "done"}

(***************************************************************************)
(* C1: on every generated grid whose end is reachable from start, the path *)
(* bfs returns has the least number of edges of any walk from start to end *)
(* over open cells, and so at most the number of edges of the path         *)
(* dfs_backtracking returns on that grid.                                  *)
(***************************************************************************)
C1_BfsShortest ==
    (Returned /\ algo = "bfs" /\ maze.end \in Reachable(maze)) =>
        /\ IsList(path)
        /\ Len(path) - 1 = MinEdges(maze)
        /\ \A d \in {dfs_backtracking(maze)[1]} :
               IsList(d) => Len(path) - 1 <= Len(d) - 1

\* bfs has returned a path that is strictly shorter than the one
\* dfs_backtracking returns on the same grid.
C1_Witness ==
    /\ Returned
    /\ algo = "bfs"
    /\ IsList(path)
    /\ IsList(dfs_backtracking(maze)[1])
    /\ Len(path) + 2 <= Len(dfs_backtracking(maze)[1])

(***************************************************************************)
(* C2: every path a search (bfs or dfs_backtracking) returns starts at     *)
(* start, ends at end, holds only in-bounds open cells, repeats no cell,   *)
(* and moves by one unit in exactly one of row and column at each step.    *)
(***************************************************************************)
C2_PathValid ==
    (Returned /\ path # None) => ValidPath(maze, path)

\* dfs_backtracking has returned a path of at least four cells.
C2_Witness ==
    /\ Returned
    /\ algo = "dfs"
    /\ IsList(path)
    /\ Len(path) >= 4

(***************************************************************************)
(* C3: a search returns a path exactly when end is reachable from start    *)
(* over 4-adjacent open cells; otherwise it returns None, never an empty   *)
(* list, with the visited set (which then holds start).                    *)
(***************************************************************************)
C3_PathIffReachable ==
    Returned =>
        /\ path # <<>>
        /\ path = None \/ IsList(path)
        /\ IsList(path) <=> maze.end \in Reachable(maze)
        /\ path = None => maze.start \in visited

\* A search has returned None on a grid whose end is cut off, after
\* visiting more than the start cell.
C3_Witness ==
    /\ Returned
    /\ path = None
    /\ maze.end \notin Reachable(maze)
    /\ Cardinality(visited) >= 2

(***************************************************************************)
(* C4: in the grid of every generated maze, of every retry cycle, the      *)
(* start cell and the end cell are open, whatever the density and the      *)
(* values drawn.                                                           *)
(***************************************************************************)
C4_EndpointsOpen ==
    maze # NoMaze =>
        /\ maze.grid[start[1]][start[2]] = "."
        /\ maze.grid[end[1]][end[2]] = "."

\* A retry cycle has generated a maze from draws that fell below the density
\* for the start cell and for the end cell.
C4_Witness ==
    /\ pc = "search"
    /\ attempt >= 2
    /\ draws[start[1] * cols + start[2] + 1] < density
    /\ draws[end[1] * cols + end[2] + 1] < density

Ended == pc \in {"done", "error"}

(***************************************************************************)
(* C5: with ensure, attempt never exceeds max_tries (at most max_tries     *)
(* generate+search cycles are run), and the loop is left in the end, also  *)
(* when no cycle finds a path.                                             *)
(***************************************************************************)
C5_BoundedRetry ==
    /\ [](ensure /\ attempt <= max_tries)
    /\ <>Ended

\* The loop was left after max_tries cycles none of which found a path.
C5_Witness ==
    /\ ensure
    /\ pc = "done"
    /\ attempt = max_tries
    /\ path = None

(***************************************************************************)
(* C6: without ensure the loop runs exactly one generate+search cycle:     *)
(* the loop is left with attempt = 1 and one grid's worth of draws         *)
(* consumed, whether the search returned a path or None.                   *)
(***************************************************************************)
C6_SingleCycle ==
    ~ensure =>
        /\ attempt <= 1
        /\ pc = "loop" => attempt = 0
        /\ pc = "done" => attempt = 1 /\ rng = rows * cols

\* Without ensure, the loop was left after one cycle that found no path.
C6_Witness ==
    /\ ~ensure
    /\ pc = "done"
    /\ attempt = 1
    /\ path = None

(***************************************************************************)
(* C7: with ensure, the loop is left at the first cycle whose search       *)
(* returns a path, or at cycle max_tries: when it is left with attempt     *)
(* below max_tries the path is present, and every earlier cycle returned   *)
(* None (the loop goes round again only after None, and while a later      *)
(* cycle runs the previous result is None).                                *)
(***************************************************************************)
C7_StopsAtFirstPath ==
    ensure =>
        /\ (pc = "done" /\ attempt < max_tries) => IsList(path)
        /\ (pc = "loop" /\ attempt >= 1) => path = None /\ attempt < max_tries
        /\ (pc \in {"search", "bfs", "dfs"} /\ attempt >= 2) => path = None

\* With ensure, the loop was left with a path at a cycle after the first
\* and before the last.
C7_Witness ==
    /\ ensure
    /\ pc = "done"
    /\ 1 < attempt
    /\ attempt < max_tries
    /\ IsList(path)

(***************************************************************************)
(* C8: with invalid parameters (rows or cols below 2, start or end out of  *)
(* bounds, start equal to end, density outside [0.0, 1.0)) Maze.random     *)
(* fails before any draw and before a grid exists, and main ends at that   *)
(* first attempt: no search runs and nothing is retried, with ensure too.  *)
(***************************************************************************)
InGrid(c) == c[1] \in 0..(rows - 1) /\ c[2] \in 0..(cols - 1)

InvalidParams ==
    \/ rows < 2
    \/ cols < 2
    \/ ~InGrid(start)
    \/ ~InGrid(end)
    \/ start = end
    \/ density < 0
    \/ density >= ONE

C8_InvalidRejected ==
    InvalidParams =>
        /\ rng = 0
        /\ draws = <<>>
        /\ maze = NoMaze
        /\ path = Unbound
        /\ search = <<{}, <<>>, <<>>, <<>>, FALSE>>
        /\ pc \in {"loop", "error"}
        /\ pc = "loop" => attempt = 0 /\ error = ""
        /\ pc = "error" => attempt = 1 /\ error # ""

\* With ensure, main has ended on the error of a start cell out of bounds.
C8_Witness ==
    /\ ensure
    /\ ~InGrid(start)
    /\ rows >= 2
    /\ cols >= 2
    /\ pc = "error"

(***************************************************************************)
(* C9: when the loop has been left, what is reported belongs to the last   *)
(* cycle: the maze is a grid of the given shape and endpoints, path and    *)
(* visited are what the chosen search returns on that maze, attempt is the *)
(* number of cycles run (each consumed rows*cols draws), and no error was  *)
(* raised, also when max_tries cycles found no path.                       *)
(***************************************************************************)
C9_LastCycleReported ==
    pc = "done" =>
        /\ error = ""
        /\ attempt \in 1..max_tries
        /\ rng = attempt * rows * cols
        /\ maze.start = start
        /\ maze.end = end
        /\ Cells(maze) = (0..(rows - 1)) \X (0..(cols - 1))
        /\ <<path, visited>> =
               IF algo = "bfs" THEN bfs(maze) ELSE dfs_backtracking(maze)

\* max_tries cycles found no path, and the last one is reported with the
\* cells it visited.
C9_Witness ==
    /\ pc = "done"
    /\ error = ""
    /\ attempt = max_tries
    /\ path = None
    /\ Cardinality(visited) >= 1
    /\ visited = Reachable(maze)

(***************************************************************************)
(* C11: the visited set a search returns (bfs or dfs_backtracking)         *)
(* contains start, and when the search returns a path every cell of the    *)
(* path is in that visited set.                                            *)
(***************************************************************************)
C11_VisitedCoversPath ==
    Returned =>
        /\ maze.start \in visited
        /\ IsList(path) => \A i \in 1..Len(path) : path[i] \in visited

\* dfs has returned a path of at least two steps, and has visited cells
\* that are not on it.
C11_Witness ==
    /\ Returned
    /\ algo = "dfs"
    /\ IsList(path)
    /\ Len(path) >= 3
    /\ Cardinality(visited) > Len(path)

(***************************************************************************)
(* C12: once Maze.random has returned the maze, no step of main changes    *)
(* its grid, start or end: not the search, not draw_with_path, not the     *)
(* export.  The maze only changes where the loop builds the next one.      *)
(***************************************************************************)
C12_GridImmutable == [][pc # "loop" => maze' = maze]_vars

\* A maze with a wall has been searched, drawn with the overlay and
\* exported.
C12_Witness ==
    /\ pc = "exit"
    /\ exported # NoText
    /\ overlay # NoOverlay
    /\ IsList(path)
    /\ \E c \in Cells(maze) : ~IsOpen(maze, c)

(***************************************************************************)
(* C13: in the text draw_with_path returns, start is drawn as S and end as *)
(* E, every other cell of the path as *, and, when the overlay is given,   *)
(* every other visited open cell that is not on the path as the middle dot.*)
(***************************************************************************)
CharAt(text, c) == text[c[1] + 1][c[2] + 1]

OnPath(p, c) == IsList(p) /\ \E i \in 1..Len(p) : p[i] = c

C13_Rendering ==
    pc = "shown" =>
        /\ CharAt(shown, maze.start) = "S"
        /\ CharAt(shown, maze.end) = "E"
        /\ \A c \in Cells(maze) \ {maze.start, maze.end} :
              /\ OnPath(path, c) => CharAt(shown, c) = "*"
              /\ (overlay # NoOverlay /\ c \in overlay /\ IsOpen(maze, c)
                      /\ ~OnPath(path, c))
                   => CharAt(shown, c) = "·"

(***************************************************************************)
(* C14: dfs_backtracking keeps the depth of its nested dfs calls within a  *)
(* fixed bound, whatever the number of open cells of the grid.             *)
(* DepthLimit is such a bound; the calls of dfs that are running are the   *)
(* entries of stack.                                                       *)
(***************************************************************************)
DepthLimit == 4

C14_DepthGuarded == pc = "dfs" => Len(stack) <= DepthLimit

(***************************************************************************)
(* C15: for every cell c of every generated grid, neighbors yields exactly *)
(* the cells adjacent to c in one of the four directions that are in the   *)
(* grid and not walls, each once, and in the order down, up, right, left.  *)
(***************************************************************************)
\* The place of the cell d, adjacent to c, in the order down, up, right,
\* left.
Rank(c, d) ==
    IF d[1] = c[1] + 1 THEN 1
    ELSE IF d[1] = c[1] - 1 THEN 2
    ELSE IF d[2] = c[2] + 1 THEN 3
    ELSE 4

C15_Neighbors ==
    pc = "search" =>
        \A c \in Cells(maze) :
            LET n == neighbors(maze, c)
            IN  /\ {n[i] : i \in 1..Len(n)}
                     = {d \in Cells(maze) : Adjacent(c, d) /\ IsOpen(maze, d)}
                /\ \A i, j \in 1..Len(n) :
                      i < j => Rank(c, n[i]) < Rank(c, n[j])

\* Some cell has three cells next to it in the grid, one of them a wall,
\* and neighbors yields the two others, the cell above and the cell to the
\* left.
C15_Witness ==
    /\ pc = "search"
    /\ \E c \in Cells(maze) :
          /\ Cardinality({d \in Cells(maze) : Adjacent(c, d)}) = 3
          /\ neighbors(maze, c) = << <<c[1] - 1, c[2]>>, <<c[1], c[2] - 1>> >>

(***************************************************************************)
(* C16: every cycle draws rows*cols values from the one random source, one *)
(* per cell, rows outermost, the cells of start and end included; cycle k  *)
(* goes on where cycle k-1 stopped.  After k cycles k*rows*cols values     *)
(* have been drawn, and cell (r, c) of cycle k is a wall exactly when draw *)
(* number (k-1)*rows*cols + r*cols + c of the stream (counted from 0) is   *)
(* below the density, unless it is the start or the end cell.              *)
(***************************************************************************)
\* Draw number n of the stream, for the draws of the latest cycle: they are
\* the last Len(draws) of the rng values drawn so far.
DrawNumber(n) == draws[n - (rng - Len(draws)) + 1]

C16_DrawsPerCell ==
    /\ error = "" => rng = attempt * rows * cols
    /\ pc = "search" =>
          /\ Len(draws) = rows * cols
          /\ \A c \in Cells(maze) \ {maze.start, maze.end} :
                maze.grid[c[1]][c[2]] = "#"
                  <=> DrawNumber((attempt - 1) * rows * cols
                                    + c[1] * cols + c[2]) < density

\* The second cycle or a later one has built a maze with a wall, from draws
\* that are not all alike.
C16_Witness ==
    /\ pc = "search"
    /\ attempt >= 2
    /\ \E c \in Cells(maze) : ~IsOpen(maze, c)
    /\ \E i, j \in 1..Len(draws) : draws[i] # draws[j]

(***************************************************************************)
(* C17: in bfs and in dfs_backtracking a cell gets its parent on its first *)
(* visit only: at every point of the search and after it, every cell with  *)
(* an entry in parents is in visited, and start has no entry.              *)
(***************************************************************************)
C17_ParentOnFirstVisit ==
    pc \in {"bfs", "dfs", "decide", "done"} =>
        /\ \A c \in DOMAIN parents : c \in visited
        /\ maze.start \notin DOMAIN parents

(***************************************************************************)
(* C18: dfs_backtracking stops exploring when end is reached: from the     *)
(* moment end is in visited no step of the search adds a cell to visited,  *)
(* so end is the last cell visited.                                        *)
(***************************************************************************)
C18_StopsAtEnd ==
    [][(pc = "dfs" /\ maze.end \in visited) => visited' = visited]_vars

\* dfs has returned a path; after end was reached a running call went on
\* to a cell that was not visited (it has a parent), which stayed out of
\* visited, and so did some open cell reachable from start.
C18_Witness ==
    /\ Returned
    /\ algo = "dfs"
    /\ IsList(path)
    /\ \E c \in DOMAIN parents : c \notin visited
    /\ Reachable(maze) \ visited # {}

(***************************************************************************)
(* C19: during bfs and dfs_backtracking and after them, visited only holds *)
(* open cells of the grid that are reachable from start; when the search   *)
(* returns None, visited is the set of all open cells reachable from start.*)
(***************************************************************************)
C19_VisitedReachable ==
    pc \in {"bfs", "dfs", "decide", "done"} =>
        /\ \A c \in visited : IsOpen(maze, c)
        /\ visited \subseteq Reachable(maze)
        /\ (Returned /\ path = None) => visited = Reachable(maze)

\* A search has returned None after visiting three cells or more, on a
\* grid with an open cell that is not reachable from start.
C19_Witness ==
    /\ Returned
    /\ path = None
    /\ Cardinality(visited) >= 3
    /\ \E c \in Cells(maze) : IsOpen(maze, c) /\ c \notin visited

(***************************************************************************)
(* C20: whenever bfs or dfs_backtracking calls reconstruct_path, following *)
(* the parents from end leads to start: every cell on the way but start    *)
(* has an entry, no cell comes twice, and the walk takes at most           *)
(* (number of visited cells - 1) steps.  The returned path then has at     *)
(* most that many edges.                                                   *)
(***************************************************************************)
\* Following the entries of par from c leads to st in at most n steps.
RECURSIVE LeadsTo(_, _, _, _)
LeadsTo(par, c, st, n) ==
    \/ c = st
    \/ /\ n > 0
       /\ c \in DOMAIN par
       /\ LeadsTo(par, par[c], st, n - 1)

\* bfs is at line 95 with cur = maze.end taken from q; dfs_backtracking is
\* at line 121 with found set.
AtReconstruct ==
    \/ pc = "bfs" /\ q # <<>> /\ Head(q) = maze.end
    \/ pc = "dfs" /\ stack = <<>> /\ found

C20_WalkEnds ==
    /\ AtReconstruct =>
          LeadsTo(parents, maze.end, maze.start, Cardinality(visited) - 1)
    /\ (Returned /\ path # None) =>
          /\ IsList(path)
          /\ Len(path) - 1 <= Cardinality(visited) - 1

\* A search is about to call reconstruct_path with end three links or more
\* away from start, and entries in parents that are not on the way.
C20_Witness ==
    /\ AtReconstruct
    /\ ~LeadsTo(parents, maze.end, maze.start, 2)
    /\ Cardinality(DOMAIN parents) > 3

====
